---- MODULE Spec2Model ----
(***************************************************************************)
(* The tree transformations of doc/examples/yy_dev/plot_max_tree.py:       *)
(* the canonical max-tree graph CMT built from the max_tree output         *)
(* (P, S), its copy MT, prune (canonical max-tree -> max-tree) and         *)
(* accumulate (max-tree -> component tree).                                *)
(*                                                                         *)
(* Python objects are modelled with reference semantics: a graph lives in  *)
(* `heap` and CMT / MT hold references into it.  A networkx DiGraph is a   *)
(* record of its node set, its edge set and the per-node attribute         *)
(* dictionaries 'value' and 'label' (a function whose domain is the set    *)
(* of nodes that have the attribute).  A dict is a function whose domain   *)
(* is its key set.  The strings "a, b, c" that prune and accumulate build  *)
(* are modelled as the sequence of the pixel indices they list.            *)
(* The recursion of prune and accumulate is modelled by an explicit call   *)
(* stack, one step per loop iteration or return.                           *)
(***************************************************************************)
EXTENDS Integers, Sequences, FiniteSets, TLC

\* Largest image size (number of pixels) explored for valid canonical trees.
MaxN == 4
\* Largest image size explored for arbitrary (unvalidated) parent arrays.
MaxNAny == 3
\* Largest pixel intensity explored (intensities are 0..MaxVal).
MaxVal == 2
\* Largest pixel intensity explored for arbitrary parent arrays.
MaxValAny == 1

VARIABLES
    image_rav,      \* pixel index -> intensity            (image.ravel())
    P_rav,          \* pixel index -> parent pixel index   (P.ravel())
    S,              \* processing order, root first        (max_tree's S)
    heap,           \* graph objects, by reference
    CMT,            \* reference to the canonical max-tree graph (0: unbound)
    MT,             \* reference to the max-tree graph           (0: unbound)
    labels,         \* dict res of prune
    labels_ct,      \* dict res of accumulate
    total,          \* value returned by accumulate(MT, S[0], labels_ct)
    labels_again,   \* dict res of a second accumulate run on the same MT
    total_again,    \* value returned by that second run
    stack,          \* call stack of the running recursion
    visits,         \* node -> number of calls of the running function on it
    pc              \* position in the script

vars == <<image_rav, P_rav, S, heap, CMT, MT, labels, labels_ct, total,
          labels_again, total_again, stack, visits, pc>>

inputs == <<image_rav, P_rav, S>>

----------------------------------------------------------------------------
(* Dictionaries and sequences *)

EmptyDict == [k \in {} |-> <<>>]

Put(d, k, v) == [x \in (DOMAIN d) \cup {k} |-> IF x = k THEN v ELSE d[x]]

Del(d, k) == [x \in (DOMAIN d) \ {k} |-> d[x]]

Range(s) == {s[i] : i \in DOMAIN s}

Pix(n) == 0 .. (n - 1)

Val == 0 .. MaxVal

\* position of pixel p in the processing order s
Pos(s, p) == CHOOSE i \in DOMAIN s : s[i] = p

\* The processing orders explored: the n rotations of the raster order.
\* prune and accumulate use a pixel index only as a key, so an order is
\* determined up to renaming the pixels by its root and by the relative
\* order of siblings; the rotations vary both.
Orders(n) == {[i \in 1 .. n |-> (i - 1 + r) % n] : r \in 0 .. (n - 1)}

----------------------------------------------------------------------------
(* networkx.DiGraph *)

\* nx.DiGraph(): a graph without nodes, edges or attributes
EmptyGraph == [nodes |-> {}, edges |-> {}, value |-> EmptyDict, label |-> EmptyDict]

\* G.add_nodes_from(s)
add_nodes_from(G, s) == [G EXCEPT !.nodes = @ \cup Range(s)]

\* for node in G.nodes(): G.nodes[node]['value'] = img[node]
set_values(G, img) == [G EXCEPT !.value = [n \in G.nodes |-> img[n]]]

\* G.add_edges_from(E): the end points of an edge become nodes of G
add_edges_from(G, E) ==
    [G EXCEPT !.edges = @ \cup E,
              !.nodes = @ \cup {e[1] : e \in E} \cup {e[2] : e \in E}]

\* mutant of remove_node: the node goes, the edges at it stay
remove_node_keep_edges(G, p) ==
    [nodes |-> G.nodes \ {p},
     edges |-> G.edges,
     value |-> Del(G.value, p),
     label |-> Del(G.label, p)]

\* G.remove_node(p): p, its attributes and every edge at p leave the graph
remove_node(G, p) ==
    [nodes |-> G.nodes \ {p},
     edges |-> {e \in G.edges : e[1] # p /\ e[2] # p},
     value |-> Del(G.value, p),
     label |-> Del(G.label, p)]

\* mutant of predecessors: G.successors(n), the edges followed forwards
successors(G, n, s) == SelectSeq(s, LAMBDA u : <<n, u>> \in G.edges)

\* list(G.predecessors(n)): the nodes u with an edge (u, n), in the order in
\* which the edges were inserted, which is the order of s for CMT and MT
predecessors(G, n, s) == SelectSeq(s, LAMBDA u : <<u, n>> \in G.edges)

\* mutant of DiGraph: MT = CMT, a second name for the same graph object
DiGraph_alias(h, g) == [heap |-> h, ref |-> g]

\* nx.DiGraph(G): a new graph object with the nodes, edges and (shallowly
\* copied) attribute dictionaries of the graph at reference g
DiGraph(h, g) == [heap |-> Append(h, h[g]), ref |-> Len(h) + 1]

\* mutant of canonical_edges: self-loops are left out
canonical_edges_noloops(s, par) ==
    {<<s[i], par[s[i]]>> : i \in {j \in 2 .. Len(s) : par[s[j]] # s[j]}}

\* mutant of canonical_edges: for n in S, the root's entry included
canonical_edges_all(s, par) == {<<s[i], par[s[i]]>> : i \in 1 .. Len(s)}

\* [(n, P_rav[n]) for n in S[1:]]
canonical_edges(s, par) == {<<s[i], par[s[i]]>> : i \in 2 .. Len(s)}

\* the graph CMT of lines 248-252
canonical_graph(s, img, par) ==
    add_edges_from(set_values(add_nodes_from(EmptyGraph, s), img),
                   canonical_edges(s, par))

----------------------------------------------------------------------------
(* Inputs: the output of max_tree *)

Root == S[1]

\* the well-formedness of a canonical tree: one self-parent, which is the
\* first pixel of the order; parents precede children in the order (so
\* the parent relation is acyclic); parent values are <= child values
ValidTree(n, img, par, s) ==
    /\ par[s[1]] = s[1]
    /\ \A p \in Pix(n) : p # s[1] =>
          /\ par[p] # p
          /\ Pos(s, par[p]) < Pos(s, p)
          /\ img[par[p]] <= img[p]

\* every pixel that has the value of its parent has no children: parents
\* are canonical pixels, as in the output of max_tree
Canonicalised(n, img, par, s) ==
    \A p \in Pix(n) \ {s[1]} : img[par[p]] = img[p] =>
        \A q \in Pix(n) \ {s[1]} : par[q] # p

InitRest ==
    /\ heap = <<>>
    /\ CMT = 0
    /\ MT = 0
    /\ labels = EmptyDict
    /\ labels_ct = EmptyDict
    /\ total = <<>>
    /\ labels_again = EmptyDict
    /\ total_again = <<>>
    /\ stack = <<>>
    /\ visits = EmptyDict
    /\ pc = "start"

\* valid canonical trees
Init ==
    /\ \E n \in 1 .. MaxN :
          /\ S \in Orders(n)
          /\ P_rav \in {par \in [Pix(n) -> Pix(n)] :
                          \A p \in Pix(n) : IF p = S[1] THEN par[p] = p
                                            ELSE Pos(S, par[p]) < Pos(S, p)}
          /\ image_rav \in {img \in [Pix(n) -> Val] : ValidTree(n, img, P_rav, S)}
    /\ InitRest

\* arbitrary parent arrays over [0, n), any values, any order
InitAny ==
    /\ \E n \in 1 .. MaxNAny :
          /\ S \in Orders(n)
          /\ P_rav \in [Pix(n) -> Pix(n)]
          /\ image_rav \in [Pix(n) -> 0 .. MaxValAny]
    /\ InitRest

----------------------------------------------------------------------------
(* The script, lines 247-261 *)

Top == stack[Len(stack)]

Count(v, n) == IF n \in DOMAIN v THEN v[n] ELSE 0

\* CMT = nx.DiGraph(); add_nodes_from(S); values; add_edges_from(...)
BuildCMT ==
    /\ pc = "start"
    /\ heap' = Append(heap, canonical_graph(S, image_rav, P_rav))
    /\ CMT' = Len(heap) + 1
    /\ pc' = "cmt"
    /\ UNCHANGED <<inputs, MT, labels, labels_ct, total, labels_again,
                   total_again, stack, visits>>

\* MT = nx.DiGraph(CMT)
CopyMT ==
    /\ pc = "cmt"
    /\ LET c == DiGraph(heap, CMT)
       IN  /\ heap' = c.heap
           /\ MT' = c.ref
    /\ pc' = "mt"
    /\ UNCHANGED <<inputs, CMT, labels, labels_ct, total, labels_again,
                   total_again, stack, visits>>

----------------------------------------------------------------------------
(* prune, lines 85-96 *)

\* mutant of prune_frame: preds[1:], the first predecessor is skipped
prune_frame_skipfirst(G, node) ==
    [node |-> node, value |-> G.value[node],
     preds |-> IF predecessors(G, node, S) = <<>> THEN <<>>
               ELSE Tail(predecessors(G, node, S))]

\* lines 86-88: the frame of a call prune(G, node, res)
prune_frame(G, node) ==
    [node |-> node, value |-> G.value[node], preds |-> predecessors(G, node, S)]

\* mutant of same_level: >= for ==
same_level_ge(G, p, value) == G.value[p] >= value

\* which predecessors prune merges into node: those of the same value
same_level(G, p, value) == G.value[p] = value

\* labels = {}; prune(MT, S[0], labels): the outermost call is entered
CallPrune ==
    /\ pc = "mt"
    /\ labels' = Put(EmptyDict, Root, <<Root>>)
    /\ stack' = <<prune_frame(heap[MT], Root)>>
    /\ visits' = Put(EmptyDict, Root, 1)
    /\ pc' = "prune"
    /\ UNCHANGED <<inputs, heap, CMT, MT, labels_ct, total, labels_again,
                   total_again>>

\* lines 89-94: one iteration of the loop over preds in the innermost call.
\* Reading the value of a node that is no longer in G raises KeyError.
PruneLoop ==
    /\ pc = "prune"
    /\ Top.preds # <<>>
    /\ LET G == heap[MT]
           node == Top.node
           p == Head(Top.preds)
           rest == [Top EXCEPT !.preds = Tail(@)]
       IN  IF p \notin G.nodes
           THEN /\ pc' = "KeyError"
                /\ UNCHANGED <<heap, labels, stack, visits>>
           ELSE IF same_level(G, p, Top.value)
           THEN \* res[node] += ', %i' % p; G.remove_node(p)
                /\ labels' = [labels EXCEPT ![node] = Append(@, p)]
                /\ heap' = [heap EXCEPT ![MT] = remove_node(G, p)]
                /\ stack' = [stack EXCEPT ![Len(stack)] = rest]
                /\ UNCHANGED <<visits, pc>>
           ELSE \* prune(G, p, res)
                /\ labels' = Put(labels, p, <<p>>)
                /\ stack' = Append([stack EXCEPT ![Len(stack)] = rest],
                                   prune_frame(G, p))
                /\ visits' = Put(visits, p, Count(visits, p) + 1)
                /\ UNCHANGED <<heap, pc>>
    /\ UNCHANGED <<inputs, CMT, MT, labels_ct, total, labels_again, total_again>>

\* lines 95-96: G.nodes[node]['label'] = res[node]; return.
\* G.nodes[node] raises KeyError when node is no longer in G.
PruneReturn ==
    /\ pc = "prune"
    /\ Top.preds = <<>>
    /\ IF Top.node \in heap[MT].nodes
       THEN /\ heap' = [heap EXCEPT ![MT].label = Put(@, Top.node, labels[Top.node])]
            /\ stack' = SubSeq(stack, 1, Len(stack) - 1)
            /\ pc' = IF Len(stack) = 1 THEN "pruned" ELSE "prune"
       ELSE /\ pc' = "KeyError"
            /\ UNCHANGED <<heap, stack>>
    /\ UNCHANGED <<inputs, CMT, MT, labels, labels_ct, total, labels_again,
                   total_again, visits>>

----------------------------------------------------------------------------
(* accumulate, lines 100-106 *)

Accumulating == pc \in {"accumulate", "accumulate_again"}

\* mutant of iadd: the returned string is not appended
iadd_drop(G, node, t, s) == [total |-> t, G |-> G]

\* mutant of iadd: the label is a list, which += extends in place
iadd_inplace(G, node, t, s) ==
    [total |-> t \o s, G |-> [G EXCEPT !.label[node] = t \o s]]

\* total += s, where total was bound to the str G.nodes[node]['label']:
\* str is immutable, so += binds total to a new string and G keeps its label
iadd(G, node, t, s) == [total |-> t \o s, G |-> G]

\* mutant of accumulate_frame: total starts as str(node), not as the label
accumulate_frame_own(G, node) ==
    [node |-> node, total |-> <<node>>, parents |-> predecessors(G, node, S)]

\* lines 101-102: the frame of a call accumulate(G, node, res)
accumulate_frame(G, node) ==
    [node |-> node, total |-> G.label[node], parents |-> predecessors(G, node, S)]

\* labels_ct = {}; total = accumulate(MT, S[0], labels_ct): the outermost
\* call is entered.  A node without 'label' raises KeyError.
CallAccumulate ==
    /\ pc = "pruned"
    /\ labels_ct' = EmptyDict
    /\ IF Root \in DOMAIN heap[MT].label
       THEN /\ stack' = <<accumulate_frame(heap[MT], Root)>>
            /\ visits' = Put(EmptyDict, Root, 1)
            /\ pc' = "accumulate"
       ELSE /\ pc' = "KeyError"
            /\ UNCHANGED <<stack, visits>>
    /\ UNCHANGED <<inputs, heap, CMT, MT, labels, total, labels_again,
                   total_again>>

\* line 103-104: the loop over parents reaches its next node p and calls
\* accumulate(G, p, res)
AccumulateLoop ==
    /\ Accumulating
    /\ Top.parents # <<>>
    /\ LET G == heap[MT]
           p == Head(Top.parents)
           rest == [Top EXCEPT !.parents = Tail(@)]
       IN  IF p \in DOMAIN G.label
           THEN /\ stack' = Append([stack EXCEPT ![Len(stack)] = rest],
                                   accumulate_frame(G, p))
                /\ visits' = Put(visits, p, Count(visits, p) + 1)
                /\ pc' = pc
           ELSE /\ pc' = "KeyError"
                /\ UNCHANGED <<stack, visits>>
    /\ UNCHANGED <<inputs, heap, CMT, MT, labels, labels_ct, total,
                   labels_again, total_again>>

\* lines 105-106: res[node] = total; return total.  In the caller (line 104)
\* total += ', ' + <the returned string>; the outermost call returns to the
\* script (line 261).
AccumulateReturn ==
    /\ Accumulating
    /\ Top.parents = <<>>
    /\ IF pc = "accumulate"
       THEN /\ labels_ct' = Put(labels_ct, Top.node, Top.total)
            /\ UNCHANGED labels_again
       ELSE /\ labels_again' = Put(labels_again, Top.node, Top.total)
            /\ UNCHANGED labels_ct
    /\ IF Len(stack) = 1
       THEN /\ stack' = <<>>
            /\ IF pc = "accumulate"
               THEN total' = Top.total /\ UNCHANGED total_again
               ELSE total_again' = Top.total /\ UNCHANGED total
            /\ pc' = IF pc = "accumulate" THEN "accumulated" ELSE "done"
            /\ UNCHANGED heap
       ELSE LET caller == stack[Len(stack) - 1]
                r == iadd(heap[MT], caller.node, caller.total, Top.total)
            IN  /\ stack' = [SubSeq(stack, 1, Len(stack) - 1)
                               EXCEPT ![Len(stack) - 1].total = r.total]
                /\ heap' = [heap EXCEPT ![MT] = r.G]
                /\ UNCHANGED <<total, total_again, pc>>
    /\ UNCHANGED <<inputs, CMT, MT, labels, visits>>

\* accumulate(MT, S[0], res) once more, with a fresh dict, on the same graph
CallAccumulateAgain ==
    /\ pc = "accumulated"
    /\ labels_again' = EmptyDict
    /\ IF Root \in DOMAIN heap[MT].label
       THEN /\ stack' = <<accumulate_frame(heap[MT], Root)>>
            /\ visits' = Put(EmptyDict, Root, 1)
            /\ pc' = "accumulate_again"
       ELSE /\ pc' = "KeyError"
            /\ UNCHANGED <<stack, visits>>
    /\ UNCHANGED <<inputs, heap, CMT, MT, labels, labels_ct, total, total_again>>

Next ==
    \/ BuildCMT
    \/ CopyMT
    \/ CallPrune
    \/ PruneLoop
    \/ PruneReturn
    \/ CallAccumulate
    \/ AccumulateLoop
    \/ AccumulateReturn
    \/ CallAccumulateAgain

Spec == Init /\ [][Next]_vars

SpecAny == InitAny /\ [][Next]_vars

FairSpecAny == InitAny /\ [][Next]_vars /\ WF_vars(Next)

----------------------------------------------------------------------------
(* Vocabulary of the properties *)

N == Len(S)

AllPix == Pix(N)

\* prune(MT, S[0], labels) has returned
Pruned == pc \in {"pruned", "accumulate", "accumulated", "accumulate_again", "done"}

\* accumulate(MT, S[0], labels_ct) has returned
Accumulated == pc \in {"accumulated", "accumulate_again", "done"}

\* the nodes of MT that carry a 'label', and the pixels a label lists
Labelled == DOMAIN heap[MT].label

LabelSet(n) == Range(heap[MT].label[n])

CumulativeSet(n) == Range(labels_ct[n])

\* p has the value of its parent in the canonical tree
EqualParent(p) == p # Root /\ image_rav[P_rav[p]] = image_rav[p]

CanonicalInput == Canonicalised(N, image_rav, P_rav, S)

\* the canonical parent chain of p passes through n (valid trees only)
RECURSIVE OnChain(_, _)
OnChain(p, n) == p = n \/ (p # Root /\ OnChain(P_rav[p], n))

\* neither p nor a proper ancestor of p has the value of its parent
RECURSIVE NoMergedAncestor(_)
NoMergedAncestor(p) ==
    p = Root \/ (~EqualParent(p) /\ NoMergedAncestor(P_rav[p]))

\* the labels of the labelled nodes partition the pixels, and there are at
\* most N labelled nodes
LabelsPartition ==
    /\ Cardinality(Labelled) <= N
    /\ \A p \in AllPix :
          Cardinality({<<n, i>> \in Labelled \X (1 .. N) :
                         i <= Len(heap[MT].label[n]) /\ heap[MT].label[n][i] = p}) = 1

\* some pixel was merged into its parent by prune
SomeMerged == \E p \in AllPix : p \notin heap[MT].nodes

----------------------------------------------------------------------------
(* C1 *)

\* C1 as stated: for every valid canonical tree, once prune has returned, the
\* labelled nodes are at most N and their labels partition the pixels.
C1_Original == Pruned => LabelsPartition

\* C1 as amended: on every valid canonical tree in which no pixel with the
\* value of its parent has children, once prune has returned, the labelled
\* nodes are at most N and their labels partition the pixels [0, N).
C1_PartitionOnCanonical == (Pruned /\ CanonicalInput) => LabelsPartition

C1_Witness == pc = "done" /\ CanonicalInput /\ N >= 3 /\ SomeMerged

(* C2 *)

\* C2 as stated: for every valid canonical tree the value accumulate returns,
\* which is the root's cumulative set, lists exactly N pixels: all of [0, N).
C2_Original ==
    Accumulated => /\ Len(total) = N
                   /\ Range(total) = AllPix
                   /\ labels_ct[Root] = total

\* C2 as amended: the same, on every valid canonical tree in which no pixel
\* with the value of its parent has children.
C2_RootOnCanonical ==
    (Accumulated /\ CanonicalInput) => /\ Len(total) = N
                                       /\ Range(total) = AllPix
                                       /\ labels_ct[Root] = total

C2_Witness ==
    /\ pc = "done" /\ CanonicalInput /\ N >= 3 /\ SomeMerged
    /\ Cardinality(heap[MT].nodes) >= 2

(* C3 *)

StrictEdges == \A e \in heap[MT].edges : image_rav[e[1]] > image_rav[e[2]]

\* C3 as stated: for every valid canonical tree, every edge (child, parent)
\* left in G after prune has value[child] > value[parent].
C3_Original == Pruned => StrictEdges

\* C3 as amended: the same, on every valid canonical tree in which no pixel
\* with the value of its parent has children.
C3_StrictOnCanonical == (Pruned /\ CanonicalInput) => StrictEdges

C3_Witness ==
    /\ pc = "done" /\ CanonicalInput /\ SomeMerged
    /\ heap[MT].edges # {}

(* C4 *)

\* two distinct indices are their own parent
TwoSelfParents ==
    \E p, q \in AllPix : p # q /\ P_rav[p] = p /\ P_rav[q] = q

\* the self-parents other than the first pixel of the order
ExtraSelfParents == {s \in AllPix \ {Root} : P_rav[s] = s}

C5_CanonicalUnchanged ==
    CMT # 0 =>
        /\ heap[CMT].nodes = AllPix
        /\ heap[CMT].edges = {<<n, P_rav[n]>> : n \in AllPix \ {Root}}
        /\ heap[CMT].value = image_rav
        /\ DOMAIN heap[CMT].label = {}
        /\ MT # CMT

C5_Witness ==
    /\ pc = "done" /\ SomeMerged
    /\ Labelled # {}
    /\ Cardinality(heap[MT].edges) < Cardinality(heap[CMT].edges)

(* C6 *)

\* C6: for every edge (child, parent) between labelled nodes of the pruned
\* graph, the child's cumulative set is a strict subset of the parent's,
\* which holds the parent pixel besides.
C6_StrictSuperset ==
    Accumulated =>
        \A e \in heap[MT].edges :
            (e[1] \in Labelled /\ e[2] \in Labelled) =>
                /\ e[1] \in DOMAIN labels_ct
                /\ e[2] \in DOMAIN labels_ct
                /\ CumulativeSet(e[1]) \subseteq CumulativeSet(e[2])
                /\ CumulativeSet(e[1]) # CumulativeSet(e[2])
                /\ e[2] \in CumulativeSet(e[2]) \ CumulativeSet(e[1])

C6_Witness ==
    /\ pc = "done"
    /\ \E e \in heap[MT].edges :
          /\ e[1] \in Labelled /\ e[2] \in Labelled
          /\ Cardinality(CumulativeSet(e[1])) >= 2

(* C7 *)

\* C7: accumulate changes nothing of G (no step of either run changes the
\* heap), and the second run on the same pruned graph records for every
\* node, and returns, what the first run did.
C7_AccumulatePure ==
    /\ [](pc = "done" => (labels_again = labels_ct /\ total_again = total))
    /\ [][(pc \in {"pruned", "accumulate", "accumulated", "accumulate_again"})
             => (heap' = heap)]_vars

C7_Witness ==
    /\ pc = "done"
    /\ Len(total) > Len(heap[MT].label[Root])
    /\ Cardinality(DOMAIN labels_again) >= 2

(* C8 *)

\* p is its own representative: a node of the pruned graph whose label
\* lists p
OwnRepresentative(p) ==
    /\ p \in heap[MT].nodes
    /\ p \in Labelled
    /\ p \in LabelSet(p)

AllNodesLabelled == \A n \in heap[MT].nodes : n \in Labelled

\* C8 as stated: for every valid canonical tree, after prune every pixel
\* with no equal-valued parent is its own representative, and no node of
\* the pruned graph is without a label.
C8_Original ==
    Pruned => /\ \A p \in AllPix : ~EqualParent(p) => OwnRepresentative(p)
              /\ AllNodesLabelled

\* C8 as amended: for every valid canonical tree, after prune every pixel p
\* such that neither p nor any proper ancestor of p has the value of its
\* own parent is its own representative.  On a tree in which no pixel with
\* the value of its parent has children, that is every pixel with no
\* equal-valued parent, and no node of the pruned graph is without a label.
C8_OwnRepresentative ==
    Pruned =>
        /\ \A p \in AllPix : NoMergedAncestor(p) => OwnRepresentative(p)
        /\ CanonicalInput =>
              /\ \A p \in AllPix : ~EqualParent(p) => OwnRepresentative(p)
              /\ AllNodesLabelled

C8_Witness ==
    /\ pc = "done"
    /\ ~CanonicalInput
    /\ \E p \in AllPix \ {Root} : NoMergedAncestor(p)
    /\ \E q \in AllPix : ~NoMergedAncestor(q) /\ ~EqualParent(q)

(* C9 *)

\* C9: on a canonicalised valid tree, after prune and accumulate: the nodes
\* removed are exactly the pixels that have the value of their parent; the
\* label of a surviving node n lists n and its equal-valued canonical
\* children; its cumulative set is n and all its canonical descendants.
C9_CanonicalisedResult ==
    /\ (Pruned /\ CanonicalInput) =>
          /\ AllPix \ heap[MT].nodes = {p \in AllPix : EqualParent(p)}
          /\ Labelled = heap[MT].nodes
          /\ \A n \in heap[MT].nodes :
                /\ LabelSet(n) = {n} \cup {c \in AllPix : EqualParent(c) /\ P_rav[c] = n}
                /\ Len(heap[MT].label[n]) = Cardinality(LabelSet(n))
    /\ (Accumulated /\ CanonicalInput) =>
          /\ DOMAIN labels_ct = heap[MT].nodes
          /\ \A n \in heap[MT].nodes :
                /\ CumulativeSet(n) = {p \in AllPix : OnChain(p, n)}
                /\ Len(labels_ct[n]) = Cardinality(CumulativeSet(n))

C9_Witness ==
    /\ pc = "done" /\ CanonicalInput /\ N = MaxN
    /\ \E n \in heap[MT].nodes \ {Root} :
          /\ Cardinality(LabelSet(n)) >= 2
          /\ Cardinality(CumulativeSet(n)) > Cardinality(LabelSet(n))

(* C10 *)

\* in the graph as built, order[0] has no outgoing edge and every other
\* node has exactly one
OneWayOut ==
    pc = "cmt" =>
        \A n \in AllPix :
            Cardinality({e \in heap[CMT].edges : e[1] = n}) = IF n = Root THEN 0 ELSE 1

\* C10: for every parent array, with order a permutation of the pixels,
\* order[0] has no outgoing edge and every other node exactly one; prune and
\* accumulate each call no node twice, neither raises, and the script runs
\* through both to its end ("done" is only reached through "pruned" and
\* "accumulated").
C10_Terminates ==
    /\ []OneWayOut
    /\ [](\A n \in DOMAIN visits : visits[n] <= 1)
    /\ [](pc # "KeyError")
    /\ <>(pc = "done")

C10_Witness ==
    /\ pc = "done"
    /\ \E p, q \in AllPix \ {Root} : p # q /\ P_rav[p] = q /\ P_rav[q] = p

====
